---- MODULE Spec2Model ----
(***************************************************************************)
(* A model of gofn's provision package (src/provision/docker.go): image    *)
(* resolution (FnImageBuild, auth, FnPull, parseDockerImage), the          *)
(* container lifecycle calls and the execution engine (FnRun,              *)
(* FnWaitContainer).  One behaviour is one invocation of one exported      *)
(* operation against a container engine whose answers are chosen           *)
(* nondeterministically.  Strings that the code inspects are sequences of  *)
(* one-character strings; error messages are sequences of words.           *)
(***************************************************************************)
EXTENDS Integers, Sequences, FiniteSets, TLC

\* ------------------------------------------------------------------ bounds

\* Longest image name (in characters) given to FnPull.
MaxLen == 3
\* How many times a direct caller of FnWaitContainer reads the channel.
MaxRecv == 2
\* Longest container / image listing the engine reports.
MaxList == 2

\* ----------------------------------------------------------------- strings

Chars == {"a", ":", "@", "/", "."}

RECURSIVE StrsUpTo(_)
StrsUpTo(n) ==
    IF n = 0 THEN {<<>>}
    ELSE LET S == StrsUpTo(n - 1)
         IN  S \cup {Append(s, c) : s \in {t \in S : Len(t) = n - 1}, c \in Chars}

\* strings.IndexRune / strings.Index for one character: 1-based, 0 when absent
IndexOf(s, c) ==
    IF \E i \in 1..Len(s) : s[i] = c
    THEN CHOOSE i \in 1..Len(s) : s[i] = c /\ \A j \in 1..(i - 1) : s[j] # c
    ELSE 0

\* strings.LastIndex for one character: 1-based, 0 when absent
LastIndexOf(s, c) ==
    IF \E i \in 1..Len(s) : s[i] = c
    THEN CHOOSE i \in 1..Len(s) : s[i] = c /\ \A j \in (i + 1)..Len(s) : s[j] # c
    ELSE 0

\* strings.Contains / strings.HasPrefix on sequences
Contains(s, sub) ==
    \E i \in 0..(Len(s) - Len(sub)) : SubSeq(s, i + 1, i + Len(sub)) = sub

HasPrefix(s, p) == Len(s) >= Len(p) /\ SubSeq(s, 1, Len(p)) = p

\* the fixed prefix "gofn" and the tag "latest"
Gofn == <<"g", "o", "f", "n">>
Latest == <<"l", "a", "t", "e", "s", "t">>

\* the components of a path between its '/' separators
RECURSIVE SplitSlash(_)
SplitSlash(s) ==
    LET i == IndexOf(s, "/")
    IN  IF i = 0 THEN <<s>>
        ELSE <<SubSeq(s, 1, i - 1)>> \o SplitSlash(SubSeq(s, i + 1, Len(s)))

RECURSIVE JoinSlash(_)
JoinSlash(comps) ==
    IF comps = <<>> THEN <<>>
    ELSE IF Len(comps) = 1 THEN comps[1]
    ELSE comps[1] \o <<"/">> \o JoinSlash(Tail(comps))

\* path.Clean's rules applied component by component: empty and "." elements
\* are dropped, ".." removes the element before it, ".." at the start of a
\* rooted path is dropped and at the start of a relative one is kept.
RECURSIVE CleanStack(_, _, _)
CleanStack(comps, stack, rooted) ==
    IF comps = <<>> THEN stack
    ELSE LET c == comps[1]
             rest == Tail(comps)
         IN  IF c = <<>> \/ c = <<".">> THEN CleanStack(rest, stack, rooted)
             ELSE IF c = <<".", ".">>
             THEN IF stack # <<>> /\ stack[Len(stack)] # <<".", ".">>
                  THEN CleanStack(rest, SubSeq(stack, 1, Len(stack) - 1), rooted)
                  ELSE IF rooted THEN CleanStack(rest, stack, rooted)
                  ELSE CleanStack(rest, Append(stack, c), rooted)
             ELSE CleanStack(rest, Append(stack, c), rooted)

PathClean(p) ==
    IF p = <<>> THEN <<".">>
    ELSE LET rooted == p[1] = "/"
             out == (IF rooted THEN <<"/">> ELSE <<>>)
                        \o JoinSlash(CleanStack(SplitSlash(p), <<>>, rooted))
         IN  IF out = <<>> THEN <<".">> ELSE out

\* path.Join of two elements: the non-empty result is cleaned
PathJoin(a, b) ==
    IF Len(a) + Len(b) = 0 THEN <<>>
    ELSE IF a = <<>> THEN PathClean(b)
    ELSE PathClean(a \o <<"/">> \o b)

\* ------------------------------------------------------------------ errors

Nil == [kind |-> "nil", msg |-> <<>>]

ErrImageNotFound == [kind |-> "sentinel", msg |-> <<"provision:", "image", "not", "found">>]

ErrContainerNotFound ==
    [kind |-> "sentinel", msg |-> <<"provision:", "container", "not", "found">>]

ErrContainerExecutionFailed ==
    [kind |-> "sentinel", msg |-> <<"provision:", "container", "exited", "with", "failure">>]

\* an error of the engine connection, with its message
EngineErr(msg) == [kind |-> "engine", msg |-> msg]

\* a *bytes.Buffer: nil, or allocated with its contents
NilBuf == [isNil |-> TRUE, data |-> <<>>]
Buf(d) == [isNil |-> FALSE, data |-> d]

\* ------------------------------------------------------- image names

\* a faulty variant, which C11 excludes: the opt-out is not looked at
GetImageName_AlwaysPrefix(o) == PathJoin(Gofn, o.ImageName)

\* BuildOptions.GetImageName
GetImageName(o) ==
    IF o.DoNotUsePrefixImageName THEN o.ImageName
    ELSE PathJoin(Gofn, o.ImageName)

\* docker.ParseRepositoryTag of go-dockerclient, which parseDockerImage calls:
\* the digest (from the first '@') is cut off, and what follows the last ':'
\* of the rest is the tag unless it holds a '/' (a registry port).
ParseRepositoryTag(repoTag) ==
    LET at == IndexOf(repoTag, "@")
        rt == IF at = 0 THEN repoTag ELSE SubSeq(repoTag, 1, at - 1)
        n == LastIndexOf(rt, ":")
        tag == SubSeq(rt, n + 1, Len(rt))
    IN  IF n = 0 THEN <<rt, <<>>>>
        ELSE IF ~Contains(tag, <<"/">>) THEN <<SubSeq(rt, 1, n - 1), tag>>
        ELSE <<rt, <<>>>>

\* a faulty variant, which C10 excludes: the digest is not looked at
parseDockerImage_NoDigest(image) ==
    LET rt == ParseRepositoryTag(image)
    IN  IF rt[2] # <<>> THEN rt ELSE <<rt[1], Latest>>

\* parseDockerImage
parseDockerImage(image) ==
    LET rt == ParseRepositoryTag(image)
    IN  IF rt[2] # <<>> THEN rt
        ELSE IF IndexOf(image, "@") > 0 THEN <<image, <<>>>>
        ELSE <<rt[1], Latest>>

\* the docker.PullImageOptions and credentials FnPull hands to the engine
FnPullOptions(o) ==
    LET rt == parseDockerImage(GetImageName(o))
    IN  [Repository |-> rt[1], Tag |-> rt[2], Auth |-> o.Auth]

\* the docker.BuildImageOptions FnImageBuild hands to the engine
BuildImageOptions(o, name) ==
    [Name |-> name, Dockerfile |-> o.Dockerfile, ContextDir |-> o.ContextDir,
     Remote |-> o.RemoteURI, Auth |-> o.Auth]

\* auth's condition for contacting the registry
NeedsAuth(a) == (a.Email # "" \/ a.Username # "") /\ a.Password # ""

DefaultServerAddress == "https://index.docker.io/v1/"

\* auth's default of the registry address
WithServerAddress(a) ==
    IF a.ServerAddress = "" THEN [a EXCEPT !.ServerAddress = DefaultServerAddress]
    ELSE a

\* a faulty variant, which C12 excludes: the context is defaulted although a
\* remote URI is given
WithDefaults_IgnoreRemote(o) ==
    LET d == IF o.Dockerfile = "" THEN [o EXCEPT !.Dockerfile = "Dockerfile"] ELSE o
    IN  IF d.ContextDir = "" THEN [d EXCEPT !.ContextDir = "./"] ELSE d

\* FnImageBuild's defaults of the Dockerfile name and the build context
WithDefaults(o) ==
    LET d == IF o.Dockerfile = "" THEN [o EXCEPT !.Dockerfile = "Dockerfile"] ELSE o
    IN  IF d.ContextDir = "" /\ d.RemoteURI = "" THEN [d EXCEPT !.ContextDir = "./"]
        ELSE d

DockerfileNotFoundText == <<"Cannot", "locate", "specified", "Dockerfile:">>

\* FnImageBuild's test of a build error's message
IsDockerfileNotFound(err) == Contains(err.msg, DockerfileNotFoundText)

\* ------------------------------------------------- the engine's answers

StartResults == {Nil, EngineErr(<<"start", "failed">>)}
AttachResults == {Nil, EngineErr(<<"attach", "failed">>)}
KillResults == {Nil, EngineErr(<<"kill", "failed">>)}
RemoveResults == {Nil, EngineErr(<<"remove", "failed">>)}
PullResults == {Nil, EngineErr(<<"pull", "failed">>)}
CreateResults == {Nil, EngineErr(<<"create", "failed">>)}
ListErr == EngineErr(<<"list", "failed">>)

ExitCodes == {0, 1}
WaitErr == EngineErr(<<"wait", "failed">>)
\* client.WaitContainer's (code, err)
WaitResults == {[code |-> c, err |-> e] : c \in ExitCodes, e \in {Nil, WaitErr}}

OutData == {<<>>, <<"out">>}
\* client.Logs: what it wrote to the two sinks, and its error
LogsResults ==
    {[out |-> o, errout |-> x, err |-> e] :
        o \in OutData, x \in OutData, e \in {Nil, EngineErr(<<"logs", "failed">>)}}

\* client.AuthCheck's (status.IdentityToken, err)
AuthResults ==
    {[token |-> t, err |-> Nil] : t \in {"", "tok"}}
        \cup {[token |-> "", err |-> EngineErr(<<"unauthorized">>)]}

BuildErrMsgs ==
    { <<"Cannot", "locate", "specified", "Dockerfile:", "Dockerfile">>,
      <<"API", "error:", "Cannot", "locate", "specified", "Dockerfile:", "Df">>,
      <<"Cannot", "locate", "Dockerfile">>,
      <<"unexpected", "EOF">> }
\* client.BuildImage: what it wrote to the output stream, and its error
BuildResults ==
    {[log |-> l, err |-> e] :
        l \in {<<>>, <<"built">>}, e \in {Nil} \cup {EngineErr(m) : m \in BuildErrMsgs}}

\* ------------------------------------------------------------ the state

VARIABLES
    op,         \* the exported operation this behaviour invokes
    pc,         \* where the calling flow stands in it
    opts,       \* the *BuildOptions of FnImageBuild / FnPull (mutated in place)
    arg,        \* the other arguments: container ID, input, image name
    calls,      \* the engine calls issued so far, in order, with their answers
    ret,        \* the operation's named results
    gpc,        \* where FnWaitContainer's goroutine stands
    gres,       \* what client.WaitContainer returned to the goroutine
    delivered,  \* the values received from the channel errs, in order
    stream,     \* the input stream of the non-blocking attach: copied or not yet
    Input,      \* the package-level variable Input
    given       \* the BuildOptions as the caller passed them

vars == <<op, pc, opts, arg, calls, ret, gpc, gres, delivered, stream, Input, given>>

NoAuth ==
    [Email |-> "", Username |-> "", Password |-> "", ServerAddress |-> "",
     IdentityToken |-> ""]

NoOpts ==
    [ContextDir |-> "", Dockerfile |-> "", DoNotUsePrefixImageName |-> FALSE,
     ImageName |-> <<>>, RemoteURI |-> "", Auth |-> NoAuth, ForcePull |-> FALSE]

NoArg == [id |-> "", input |-> "", name |-> <<>>]

NoContainer == [ID |-> "", Image |-> <<>>]

NoRet ==
    [err |-> Nil, Name |-> <<>>, Stdout |-> NilBuf, Stderr |-> NilBuf,
     value |-> NoContainer, containers |-> <<>>]

\* the inputs

Names == StrsUpTo(MaxLen)

ResolveNames == {<<"a">>, <<"a", ":", "a">>, <<"a", "@", "a">>, <<"a", "/">>}

AuthInputs ==
    [Email : {"", "me@x"}, Username : {"", "me"}, Password : {"", "pw"},
     ServerAddress : {"", "reg"}, IdentityToken : {"", "old"}]

ResolveInputs ==
    [ContextDir : {"", "ctx"}, Dockerfile : {"", "Df"},
     DoNotUsePrefixImageName : BOOLEAN, ImageName : ResolveNames,
     RemoteURI : {"", "uri"}, Auth : AuthInputs, ForcePull : BOOLEAN]

PullInputs ==
    {[NoOpts EXCEPT !.ImageName = n, !.DoNotUsePrefixImageName = d] :
        n \in Names, d \in BOOLEAN}

IDs == {"c1", "c2"}
Inputs == {"", "in"}
\* what the package variable Input may hold when an operation is invoked
PackageInputs == {"", "pkg"}

ContainerImages ==
    {Gofn \o <<"/", "a">>, Gofn \o <<"a">>, Gofn, <<"a">>}
FindNames == {<<"a">>, Gofn \o <<"/", "a">>, Gofn \o <<"a">>, Gofn}

Containers == [ID : IDs, Image : ContainerImages]
ImageRecords == {[ID |-> "i1", Image |-> <<"a">>], [ID |-> "i2", Image |-> <<"a">>]}

RECURSIVE SeqsUpTo(_, _)
SeqsUpTo(S, n) ==
    IF n = 0 THEN {<<>>}
    ELSE LET T == SeqsUpTo(S, n - 1)
         IN  T \cup {Append(t, x) : t \in {u \in T : Len(u) = n - 1}, x \in S}

\* client.ListContainers / client.ListImages: the listing, and the error
ListContainersResults ==
    {[list |-> l, err |-> Nil] : l \in SeqsUpTo(Containers, MaxList)}
        \cup {[list |-> <<>>, err |-> ListErr]}
ListImagesResults ==
    {[list |-> l, err |-> Nil] : l \in SeqsUpTo(ImageRecords, MaxList)}
        \cup {[list |-> <<>>, err |-> ListErr]}

SimpleOps ==
    {"Start", "Attach", "Logs", "Kill", "Remove", "CreateContainer",
     "FindImage", "FindContainerByID", "FindContainer", "ListContainers"}

Ops == {"Resolve", "Pull", "Run", "WaitContainer"} \cup SimpleOps

Entry(o) ==
    CASE o = "Resolve" -> "Resolve_defaults"
      [] o = "Pull" -> "Pull_call"
      [] o = "Run" -> "Run_start"
      [] o = "WaitContainer" -> "Wait_call"
      [] OTHER -> "call"

Init ==
    /\ op \in Ops
    /\ pc = Entry(op)
    /\ opts \in (CASE op = "Resolve" -> ResolveInputs
                   [] op = "Pull" -> PullInputs
                   [] OTHER -> {NoOpts})
    /\ arg \in (CASE op \in {"Run", "Attach"} ->
                        {[NoArg EXCEPT !.id = "c1", !.input = i] : i \in Inputs}
                  [] op \in {"FindContainer", "FindImage", "CreateContainer"} ->
                        {[NoArg EXCEPT !.name = n] : n \in FindNames}
                  [] op \in {"Resolve", "Pull"} -> {NoArg}
                  [] OTHER -> {[NoArg EXCEPT !.id = i] : i \in IDs})
    /\ calls = <<>>
    /\ ret = NoRet
    /\ gpc = "none"
    /\ gres = [code |-> 0, err |-> Nil]
    /\ delivered = <<>>
    /\ stream = "none"
    /\ Input \in (IF op = "Run" THEN PackageInputs ELSE {""})
    /\ given = opts

\* one engine call: its kind, what was handed to the engine, its answer
Call(kind, a, r) == [call |-> kind, arg |-> a, res |-> r]

\* --------------------------------------------- FnImageBuild, auth, FnPull

\* FnImageBuild, lines 90-95: the defaults, before anything else
ResolveDefaults ==
    /\ pc = "Resolve_defaults"
    /\ opts' = WithDefaults(opts)
    /\ pc' = "Resolve_auth"
    /\ UNCHANGED <<op, given, Input, stream, arg, calls, ret, gpc, gres, delivered>>

\* a faulty variant, which C8 excludes: the build goes on after a refused auth
AfterAuth_IgnoreError(err) == "Resolve_name"

\* where FnImageBuild goes after auth returned err
AfterAuth(err) == IF err # Nil THEN "done" ELSE "Resolve_name"

\* auth with credentials: the registry is asked, the token is kept
ResolveAuthCheck ==
    /\ pc = "Resolve_auth"
    /\ NeedsAuth(opts.Auth)
    /\ \E r \in AuthResults :
          LET a == WithServerAddress(opts.Auth)
          IN  /\ calls' = Append(calls, Call("AuthCheck", a, r))
              /\ opts' = [opts EXCEPT !.Auth =
                            IF r.err # Nil THEN a
                            ELSE [a EXCEPT !.IdentityToken = r.token]]
              /\ ret' = [ret EXCEPT !.err = r.err]
              /\ pc' = AfterAuth(r.err)
    /\ UNCHANGED <<op, given, Input, stream, arg, gpc, gres, delivered>>

\* auth without credentials: nothing is asked
ResolveAuthSkip ==
    /\ pc = "Resolve_auth"
    /\ ~NeedsAuth(opts.Auth)
    /\ pc' = AfterAuth(Nil)
    /\ UNCHANGED <<op, given, Input, stream, opts, arg, calls, ret, gpc, gres, delivered>>

\* a faulty variant, which C7 excludes: ForcePull is not looked at
AfterName_IgnoreForcePull(forcePull) == "Resolve_build"

\* where FnImageBuild goes once the name is resolved
AfterName(forcePull) == IF forcePull THEN "Resolve_forcepull" ELSE "Resolve_build"

\* FnImageBuild, lines 100-102
ResolveName ==
    /\ pc = "Resolve_name"
    /\ ret' = [ret EXCEPT !.Name = GetImageName(opts)]
    /\ pc' = AfterName(opts.ForcePull)
    /\ UNCHANGED <<op, given, Input, stream, opts, arg, calls, gpc, gres, delivered>>

\* FnImageBuild, lines 103-104: the forced pull, whose error is returned
ResolveForcePull ==
    /\ pc = "Resolve_forcepull"
    /\ \E e \in PullResults :
          /\ calls' = Append(calls, Call("PullImage", FnPullOptions(opts), e))
          /\ ret' = [ret EXCEPT !.err = e]
    /\ pc' = "done"
    /\ UNCHANGED <<op, given, Input, stream, opts, arg, gpc, gres, delivered>>

\* faulty variants, which C6 and C9 exclude: every build error falls back
\* to a pull; a build error other than Dockerfile-not-found is retried
AfterBuild_PullOnAnyError(err) == IF err # Nil THEN "Resolve_fallback" ELSE "done"
AfterBuild_Retry(err) ==
    IF err # Nil
    THEN IF ~IsDockerfileNotFound(err) THEN "Resolve_build" ELSE "Resolve_fallback"
    ELSE "done"

\* where FnImageBuild goes after client.BuildImage returned err
AfterBuild(err) ==
    IF err # Nil
    THEN IF ~IsDockerfileNotFound(err) THEN "done" ELSE "Resolve_fallback"
    ELSE "done"

\* FnImageBuild, lines 106-118 and 124: the build
ResolveBuild ==
    /\ pc = "Resolve_build"
    /\ \E r \in BuildResults :
          /\ calls' = Append(calls,
                             Call("BuildImage", BuildImageOptions(opts, ret.Name), r))
          /\ ret' = [ret EXCEPT !.err = r.err,
                                !.Stdout = IF r.err = Nil THEN Buf(r.log) ELSE NilBuf]
          /\ pc' = AfterBuild(r.err)
    /\ UNCHANGED <<op, given, Input, stream, opts, arg, gpc, gres, delivered>>

\* FnImageBuild, lines 119-124: the pull after a Dockerfile that was not found
ResolveFallbackPull ==
    /\ pc = "Resolve_fallback"
    /\ \E e \in PullResults :
          /\ calls' = Append(calls, Call("PullImage", FnPullOptions(opts), e))
          /\ ret' = [ret EXCEPT !.err = e,
                                !.Stdout = IF e = Nil
                                           THEN Buf(calls[Len(calls)].res.log)
                                           ELSE NilBuf]
    /\ pc' = "done"
    /\ UNCHANGED <<op, given, Input, stream, opts, arg, gpc, gres, delivered>>

\* FnPull called on its own
Pull ==
    /\ pc = "Pull_call"
    /\ \E e \in PullResults :
          /\ calls' = Append(calls, Call("PullImage", FnPullOptions(opts), e))
          /\ ret' = [ret EXCEPT !.err = e]
    /\ pc' = "done"
    /\ UNCHANGED <<op, given, Input, stream, opts, arg, gpc, gres, delivered>>

\* --------------------------------------------------- FnWaitContainer, FnRun

SendPcs == {"send_err", "send_fail", "send_nil"}

\* the goroutine after `if err != nil { errs <- err }`: the test of the code
GoAfterErr(code) == IF code # 0 THEN "send_fail" ELSE "send_nil"

\* the goroutine's first send statement once client.WaitContainer returned
GoAfterWait(code, err) == IF err # Nil THEN "send_err" ELSE GoAfterErr(code)

\* the statement the goroutine reaches when its send at p has been received
GoAfterSend(p, code) ==
    CASE p = "send_err" -> GoAfterErr(code)
      [] p = "send_fail" -> "send_nil"
      [] p = "send_nil" -> "exit"

\* the value the send statement at p offers
GoSendValue(p, err) ==
    CASE p = "send_err" -> err
      [] p = "send_fail" -> ErrContainerExecutionFailed
      [] p = "send_nil" -> Nil

\* the goroutine's blocking client.WaitContainer returns
GoWait ==
    /\ gpc = "wait"
    /\ \E r \in WaitResults :
          /\ calls' = Append(calls, Call("WaitContainer", arg.id, r))
          /\ gres' = r
          /\ gpc' = GoAfterWait(r.code, r.err)
    /\ UNCHANGED <<op, given, Input, stream, pc, opts, arg, ret, delivered>>

\* FnWaitContainer called on its own: the channel is made, the goroutine started
WaitContainerCall ==
    /\ pc = "Wait_call"
    /\ gpc' = "wait"
    /\ pc' = "Wait_recv"
    /\ UNCHANGED <<op, given, Input, stream, opts, arg, calls, ret, gres, delivered>>

\* its caller receives from the unbuffered channel: the send and the receive
\* happen together
CallerRecv ==
    /\ pc = "Wait_recv"
    /\ gpc \in SendPcs
    /\ Len(delivered) < MaxRecv
    /\ delivered' = Append(delivered, GoSendValue(gpc, gres.err))
    /\ gpc' = GoAfterSend(gpc, gres.code)
    /\ UNCHANGED <<op, given, Input, stream, pc, opts, arg, calls, ret, gres>>

\* its caller stops reading the channel
CallerStop ==
    /\ pc = "Wait_recv"
    /\ delivered # <<>>
    /\ pc' = "done"
    /\ UNCHANGED <<op, given, Input, stream, opts, arg, calls, ret, gpc, gres, delivered>>

\* faulty variants of FnRun's control flow, which C4, C3 and C5 exclude:
\* Attach issued although Start failed; return right after a failed wait,
\* without the logs; the log fetch's error returned in place of the outcome
RunAfterStart_IgnoreError(err) == "Run_attach"
RunAfterRecv_ReturnOnError(err) == IF err # Nil THEN "done" ELSE "Run_logs"
RunResultErr_LogsFirst(waitErr, logsErr) == IF logsErr # Nil THEN logsErr ELSE waitErr

\* a faulty variant, which C18 excludes: the logs are fetched without the wait
RunAfterAttach_NoWait(err) == IF err # Nil THEN "done" ELSE "Run_logs"

\* a faulty variant, which C16 excludes: the wait is begun although Attach failed
RunAfterAttach_IgnoreError(err) == "Run_wait"

\* where FnRun goes after FnStart / FnAttach returned err, and after the receive
RunAfterStart(err) == IF err # Nil THEN "done" ELSE "Run_attach"
RunAfterAttach(err) == IF err # Nil THEN "done" ELSE "Run_wait"
RunAfterRecv(err) == "Run_logs"

\* the err FnRun returns, given the received one and FnLogs' (which is dropped)
RunResultErr(waitErr, logsErr) == waitErr

\* a faulty variant, which C20 excludes: the package variable is attached
RunInputStream_PackageInput(input, pkgInput) == pkgInput

\* FnRun, line 257: the reader attached as the container's standard input is
\* made from the argument input; the package variable Input is not read
RunInputStream(input, pkgInput) == input

\* a faulty variant, which C19 excludes: FnRun waits on the attach handle
RunWaitReady_WaitsOnHandle(s) == s = "closed"

\* whether FnRun goes on to line 262 with the attach stream in state s: the
\* docker.CloseWaiter FnAttach returned is discarded, so it always does
RunWaitReady(s) == TRUE

\* the attach's background copy of the input into the container ends
AttachStream ==
    /\ stream = "streaming"
    /\ stream' = "closed"
    /\ UNCHANGED <<op, given, Input, pc, opts, arg, calls, ret, gpc, gres, delivered>>

\* FnRun, lines 251-254
RunStart ==
    /\ pc = "Run_start"
    /\ \E e \in StartResults :
          /\ calls' = Append(calls, Call("StartContainer", arg.id, e))
          /\ ret' = [ret EXCEPT !.err = e]
          /\ pc' = RunAfterStart(e)
    /\ UNCHANGED <<op, given, Input, stream, opts, arg, gpc, gres, delivered>>

\* FnRun, lines 257-260: the input is attached, the sinks are nil
RunAttach ==
    /\ pc = "Run_attach"
    /\ \E e \in AttachResults :
          /\ calls' = Append(calls,
                Call("AttachToContainerNonBlocking",
                     [Container |-> arg.id,
                      InputStream |-> RunInputStream(arg.input, Input),
                      OutputStream |-> "nil", ErrorStream |-> "nil"], e))
          /\ ret' = [ret EXCEPT !.err = e]
          /\ pc' = RunAfterAttach(e)
          /\ stream' = IF e = Nil THEN "streaming" ELSE "none"
    /\ UNCHANGED <<op, given, Input, opts, arg, gpc, gres, delivered>>

\* FnRun, line 262: FnWaitContainer starts the goroutine
RunWait ==
    /\ pc = "Run_wait"
    /\ RunWaitReady(stream)
    /\ gpc' = "wait"
    /\ pc' = "Run_recv"
    /\ UNCHANGED <<op, given, Input, stream, opts, arg, calls, ret, gres, delivered>>

\* FnRun, line 263: err = <-e
RunRecv ==
    /\ pc = "Run_recv"
    /\ gpc \in SendPcs
    /\ LET v == GoSendValue(gpc, gres.err)
       IN  /\ delivered' = Append(delivered, v)
           /\ ret' = [ret EXCEPT !.err = v]
           /\ pc' = RunAfterRecv(v)
    /\ gpc' = GoAfterSend(gpc, gres.code)
    /\ UNCHANGED <<op, given, Input, stream, opts, arg, calls, gres>>

\* FnRun, lines 265-273: the logs into two fresh buffers, then the return
RunLogs ==
    /\ pc = "Run_logs"
    /\ \E r \in LogsResults :
          /\ calls' = Append(calls, Call("Logs", arg.id, r))
          /\ ret' = [ret EXCEPT !.err = RunResultErr(ret.err, r.err),
                                !.Stdout = Buf(r.out), !.Stderr = Buf(r.errout)]
    /\ pc' = "done"
    /\ UNCHANGED <<op, given, Input, stream, opts, arg, gpc, gres, delivered>>

\* ------------------------------------------------ the single-call operations

\* FnStart
Start ==
    /\ op = "Start" /\ pc = "call"
    /\ \E e \in StartResults :
          /\ calls' = Append(calls, Call("StartContainer", arg.id, e))
          /\ ret' = [ret EXCEPT !.err = e]
    /\ pc' = "done"
    /\ UNCHANGED <<op, given, Input, stream, opts, arg, gpc, gres, delivered>>

\* FnAttach
Attach ==
    /\ op = "Attach" /\ pc = "call"
    /\ \E e \in AttachResults :
          /\ calls' = Append(calls,
                Call("AttachToContainerNonBlocking",
                     [Container |-> arg.id, InputStream |-> arg.input,
                      OutputStream |-> "stdout", ErrorStream |-> "stderr"], e))
          /\ ret' = [ret EXCEPT !.err = e]
          /\ stream' = IF e = Nil THEN "streaming" ELSE "none"
    /\ pc' = "done"
    /\ UNCHANGED <<op, given, Input, opts, arg, gpc, gres, delivered>>

\* FnLogs
Logs ==
    /\ op = "Logs" /\ pc = "call"
    /\ \E r \in LogsResults :
          /\ calls' = Append(calls, Call("Logs", arg.id, r))
          /\ ret' = [ret EXCEPT !.err = r.err,
                                !.Stdout = Buf(r.out), !.Stderr = Buf(r.errout)]
    /\ pc' = "done"
    /\ UNCHANGED <<op, given, Input, stream, opts, arg, gpc, gres, delivered>>

\* FnKillContainer
Kill ==
    /\ op = "Kill" /\ pc = "call"
    /\ \E e \in KillResults :
          /\ calls' = Append(calls, Call("KillContainer", arg.id, e))
          /\ ret' = [ret EXCEPT !.err = e]
    /\ pc' = "done"
    /\ UNCHANGED <<op, given, Input, stream, opts, arg, gpc, gres, delivered>>

\* FnRemove
Remove ==
    /\ op = "Remove" /\ pc = "call"
    /\ \E e \in RemoveResults :
          /\ calls' = Append(calls,
                             Call("RemoveContainer", [ID |-> arg.id, Force |-> TRUE], e))
          /\ ret' = [ret EXCEPT !.err = e]
    /\ pc' = "done"
    /\ UNCHANGED <<op, given, Input, stream, opts, arg, gpc, gres, delivered>>

UUIDErr == EngineErr(<<"uuid", "failed">>)

\* uuid.NewV4: a fresh identifier, or an error
UUIDResults == {[uid |-> "u1", err |-> Nil], [uid |-> "", err |-> UUIDErr]}

\* FnContainer: no engine call when no identifier could be generated
CreateContainer ==
    /\ op = "CreateContainer" /\ pc = "call"
    /\ \E u \in UUIDResults :
          IF u.err # Nil
          THEN /\ ret' = [ret EXCEPT !.err = u.err]
               /\ calls' = calls
          ELSE \E e \in CreateResults :
                  /\ calls' = Append(calls,
                        Call("CreateContainer",
                             [Name |-> <<"gofn-", u.uid>>, Image |-> arg.name,
                              StdinOnce |-> TRUE, OpenStdin |-> TRUE], e))
                  /\ ret' = [ret EXCEPT !.err = e,
                                !.value = IF e = Nil
                                          THEN [ID |-> "c1", Image |-> arg.name]
                                          ELSE NoContainer]
    /\ pc' = "done"
    /\ UNCHANGED <<op, given, Input, stream, opts, arg, gpc, gres, delivered>>

\* FnFindImage: the first image of the filtered listing
FindImageResult(r) ==
    IF r.err # Nil THEN [err |-> r.err, value |-> NoContainer]
    ELSE IF Len(r.list) = 0 THEN [err |-> ErrImageNotFound, value |-> NoContainer]
    ELSE [err |-> Nil, value |-> r.list[1]]

FindImage ==
    /\ op = "FindImage" /\ pc = "call"
    /\ \E r \in ListImagesResults :
          /\ calls' = Append(calls, Call("ListImages", [Filter |-> arg.name], r))
          /\ ret' = [ret EXCEPT !.err = FindImageResult(r).err,
                                !.value = FindImageResult(r).value]
    /\ pc' = "done"
    /\ UNCHANGED <<op, given, Input, stream, opts, arg, gpc, gres, delivered>>

\* a faulty variant, which C15 excludes: the scan keeps the last match
FirstMatch_Last(list, matching) ==
    IF matching # {}
    THEN [err |-> Nil,
          value |-> list[CHOOSE i \in matching : \A j \in matching : i >= j]]
    ELSE [err |-> ErrContainerNotFound, value |-> NoContainer]

\* the scan `for _, v := range containers`: the first container among those
\* at the matching positions, or ErrContainerNotFound
FirstMatch(list, matching) ==
    IF matching # {}
    THEN [err |-> Nil,
          value |-> list[CHOOSE i \in matching : \A j \in matching : i <= j]]
    ELSE [err |-> ErrContainerNotFound, value |-> NoContainer]

\* FnFindContainerByID
FindContainerByIDResult(r, id) ==
    IF r.err # Nil THEN [err |-> r.err, value |-> NoContainer]
    ELSE FirstMatch(r.list, {i \in 1..Len(r.list) : r.list[i].ID = id})

FindContainerByID ==
    /\ op = "FindContainerByID" /\ pc = "call"
    /\ \E r \in ListContainersResults :
          /\ calls' = Append(calls, Call("ListContainers", [All |-> TRUE], r))
          /\ ret' = [ret EXCEPT !.err = FindContainerByIDResult(r, arg.id).err,
                                !.value = FindContainerByIDResult(r, arg.id).value]
    /\ pc' = "done"
    /\ UNCHANGED <<op, given, Input, stream, opts, arg, gpc, gres, delivered>>

\* FnFindContainer's normalisation of the image name
NormalizeImageName(n) ==
    IF ~HasPrefix(n, Gofn) THEN Gofn \o <<"/">> \o n ELSE n

\* FnFindContainer
FindContainerResult(r, name) ==
    IF r.err # Nil THEN [err |-> r.err, value |-> NoContainer]
    ELSE FirstMatch(r.list,
                    {i \in 1..Len(r.list) : r.list[i].Image = NormalizeImageName(name)})

FindContainer ==
    /\ op = "FindContainer" /\ pc = "call"
    /\ \E r \in ListContainersResults :
          /\ calls' = Append(calls, Call("ListContainers", [All |-> TRUE], r))
          /\ ret' = [ret EXCEPT !.err = FindContainerResult(r, arg.name).err,
                                !.value = FindContainerResult(r, arg.name).value]
    /\ pc' = "done"
    /\ UNCHANGED <<op, given, Input, stream, opts, arg, gpc, gres, delivered>>

\* a faulty variant, which C14 excludes: the '/' of the prefix is not required
FnListContainersResult_NoSlash(r) ==
    IF r.err # Nil THEN [err |-> r.err, containers |-> <<>>]
    ELSE [err |-> Nil,
          containers |-> SelectSeq(r.list, LAMBDA c : HasPrefix(c.Image, Gofn))]

\* FnListContainers: the containers whose image starts with "gofn/"
FnListContainersResult(r) ==
    IF r.err # Nil THEN [err |-> r.err, containers |-> <<>>]
    ELSE [err |-> Nil,
          containers |-> SelectSeq(r.list, LAMBDA c : HasPrefix(c.Image, Gofn \o <<"/">>))]

ListContainers ==
    /\ op = "ListContainers" /\ pc = "call"
    /\ \E r \in ListContainersResults :
          /\ calls' = Append(calls, Call("ListContainers", [All |-> TRUE], r))
          /\ ret' = [ret EXCEPT !.err = FnListContainersResult(r).err,
                                !.containers = FnListContainersResult(r).containers]
    /\ pc' = "done"
    /\ UNCHANGED <<op, given, Input, stream, opts, arg, gpc, gres, delivered>>

\* ------------------------------------------------------ the specification

Next ==
    \/ ResolveDefaults \/ ResolveAuthCheck \/ ResolveAuthSkip \/ ResolveName
    \/ ResolveForcePull \/ ResolveBuild \/ ResolveFallbackPull \/ Pull
    \/ WaitContainerCall \/ GoWait \/ CallerRecv \/ CallerStop
    \/ RunStart \/ RunAttach \/ AttachStream \/ RunWait \/ RunRecv \/ RunLogs
    \/ Start \/ Attach \/ Logs \/ Kill \/ Remove \/ CreateContainer
    \/ FindImage \/ FindContainerByID \/ FindContainer \/ ListContainers

Spec == Init /\ [][Next]_vars

\* the scheduling: a goroutine that can run does run, and the engine's wait
\* call returns (the container exits or is killed)
FairSpec == Spec /\ WF_vars(GoWait) /\ WF_vars(RunRecv) /\ WF_vars(RunLogs)

\* ------------------------------------------------------------ the claims

\* the engine calls of one kind, in the order they were issued
CallsOf(kind) == SelectSeq(calls, LAMBDA c : c.call = kind)
Count(kind) == Len(CallsOf(kind))

CallKinds ==
    {"AuthCheck", "BuildImage", "PullImage", "CreateContainer", "StartContainer",
     "AttachToContainerNonBlocking", "WaitContainer", "Logs", "KillContainer",
     "RemoveContainer", "ListImages", "ListContainers"}

\* the error an engine call answered with
ResErr(c) == IF "err" \in DOMAIN c.res THEN c.res.err ELSE c.res

\* the send statements the goroutine has reached: those received, and the one
\* it stands at
SendsAttempted == Len(delivered) + (IF gpc \in SendPcs THEN 1 ELSE 0)

\* the single value the wait's outcome calls for: the wait error first, then
\* the execution failure, then nil
WaitOutcome(r) ==
    IF r.err # Nil THEN r.err
    ELSE IF r.code # 0 THEN ErrContainerExecutionFailed
    ELSE Nil

WaitReturned == gpc \notin {"none", "wait"}

\* C1: in each outcome of the engine's wait call the goroutine of
\* FnWaitContainer performs or attempts exactly one send: never a second one,
\* and never none once the wait call has returned.
C1_ExactlyOneSend ==
    /\ SendsAttempted <= 1
    /\ WaitReturned => SendsAttempted = 1
    /\ gpc = "exit" => Len(delivered) = 1

\* C2: every value a caller receives from the channel is the wait error when
\* the wait call errored, else ErrContainerExecutionFailed when the exit code
\* is non-zero, else nil; nil is never received when a failure applies.
C2_ReceivedIsOutcome ==
    \A i \in 1..Len(delivered) : delivered[i] = WaitOutcome(gres)

RunDone == op = "Run" /\ pc = "done"

\* FnRun got past FnStart and FnAttach
RunAttached ==
    /\ Count("AttachToContainerNonBlocking") = 1
    /\ ResErr(CallsOf("AttachToContainerNonBlocking")[1]) = Nil

\* C3: when Start and Attach succeed and the container exits, FnRun returns
\* nil for exit code 0 and ErrContainerExecutionFailed for any other code, in
\* both cases with non-nil stdout/stderr buffers holding what the log fetch
\* wrote.
C3_RunReturnsOutcomeAndOutput ==
    (RunDone /\ RunAttached /\ gres.err = Nil) =>
        /\ ret.err = (IF gres.code = 0 THEN Nil ELSE ErrContainerExecutionFailed)
        /\ ~ret.Stdout.isNil /\ ~ret.Stderr.isNil
        /\ Count("Logs") = 1
        /\ ret.Stdout.data = CallsOf("Logs")[1].res.out
        /\ ret.Stderr.data = CallsOf("Logs")[1].res.errout

C3_Witness ==
    /\ RunDone /\ RunAttached
    /\ gres = [code |-> 1, err |-> Nil]
    /\ ret.err = ErrContainerExecutionFailed
    /\ ret.Stdout = Buf(<<"out">>)
    /\ ret.Stderr = Buf(<<"out">>)

RunOrder ==
    <<"StartContainer", "AttachToContainerNonBlocking", "WaitContainer", "Logs">>

\* C4: in FnRun the engine calls are issued in the order Start, Attach, Wait,
\* Logs, each at most once: Attach only after Start succeeded, the wait only
\* after Attach succeeded, Logs only after the wait outcome was received.
C4_RunCallOrder ==
    op = "Run" =>
        /\ Len(calls) <= Len(RunOrder)
        /\ \A i \in 1..Len(calls) : calls[i].call = RunOrder[i]
        /\ Len(calls) >= 2 => ResErr(calls[1]) = Nil
        /\ gpc # "none" => Len(calls) >= 2 /\ ResErr(calls[2]) = Nil
        /\ Len(calls) >= 3 => gpc # "none"
        /\ Len(calls) >= 4 => Len(delivered) = 1

C4_Witness ==
    /\ RunDone
    /\ Len(calls) = 4
    /\ calls[4].call = "Logs"

\* C5: once FnRun has received the wait outcome, the logs are fetched whatever
\* the outcome is, and the error FnRun returns is that outcome, whatever the
\* log fetch answered.
C5_LogsNeverMaskOutcome ==
    (op = "Run" /\ delivered # <<>>) =>
        /\ pc \in {"Run_logs", "done"}
        /\ ret.err = WaitOutcome(gres)
        /\ pc = "done" => Count("Logs") = 1

C5_Witness ==
    /\ RunDone
    /\ gres.err = WaitErr
    /\ Count("Logs") = 1
    /\ ResErr(CallsOf("Logs")[1]) # Nil
    /\ ret.err = WaitErr

ResolveDone == op = "Resolve" /\ pc = "done"

\* the pull call c names the repository and tag of the name FnImageBuild resolved
PullOfResolvedName(c) ==
    LET rt == parseDockerImage(ret.Name)
    IN  c.arg.Repository = rt[1] /\ c.arg.Tag = rt[2]

\* C6: in FnImageBuild without ForcePull, a build that fails with the
\* Dockerfile-not-found error is followed by exactly one pull, of the resolved
\* name, whose outcome is the returned error; any other build error is
\* returned unchanged with no pull; a build that succeeds is followed by no
\* pull.
C6_PullOnlyAfterDockerfileNotFound ==
    (op = "Resolve" /\ ~opts.ForcePull) =>
        /\ Count("PullImage") <= 1
        /\ Count("PullImage") = 1 =>
              /\ Len(calls) >= 2
              /\ calls[Len(calls)].call = "PullImage"
              /\ calls[Len(calls) - 1].call = "BuildImage"
              /\ IsDockerfileNotFound(ResErr(calls[Len(calls) - 1]))
              /\ PullOfResolvedName(calls[Len(calls)])
        /\ (pc = "done" /\ Count("BuildImage") = 1) =>
              LET b == ResErr(CallsOf("BuildImage")[1])
              IN  IF b # Nil /\ IsDockerfileNotFound(b)
                  THEN /\ Count("PullImage") = 1
                       /\ ret.err = ResErr(CallsOf("PullImage")[1])
                  ELSE /\ Count("PullImage") = 0
                       /\ ret.err = b

C6_Witness ==
    /\ ResolveDone /\ ~opts.ForcePull
    /\ Count("BuildImage") = 1
    /\ IsDockerfileNotFound(ResErr(CallsOf("BuildImage")[1]))
    /\ Count("PullImage") = 1
    /\ ret.err = EngineErr(<<"pull", "failed">>)
    /\ ret.Name = Gofn \o <<"/", "a", ":", "a">>

\* the registry refused the credentials
AuthFailed == Count("AuthCheck") = 1 /\ ResErr(CallsOf("AuthCheck")[1]) # Nil

\* C7, as stated: with ForcePull set, FnImageBuild issues no build call,
\* exactly one pull, and returns that pull's outcome.
C7_ForcePullAlwaysPulls ==
    (ResolveDone /\ opts.ForcePull) =>
        /\ Count("BuildImage") = 0
        /\ Count("PullImage") = 1
        /\ ret.err = ResErr(CallsOf("PullImage")[1])

\* C7, amended: with ForcePull set, FnImageBuild never issues a build call; if
\* the registry auth check fails it returns that error and pulls nothing;
\* otherwise it issues exactly one pull, of the resolved name, and returns
\* that pull's outcome.
C7_ForcePullSkipsBuild ==
    (op = "Resolve" /\ opts.ForcePull) =>
        /\ Count("BuildImage") = 0
        /\ Count("PullImage") <= 1
        /\ pc = "done" =>
              IF AuthFailed
              THEN /\ Count("PullImage") = 0
                   /\ ret.err = ResErr(CallsOf("AuthCheck")[1])
              ELSE /\ Count("PullImage") = 1
                   /\ PullOfResolvedName(CallsOf("PullImage")[1])
                   /\ ret.err = ResErr(CallsOf("PullImage")[1])

C7_Witness ==
    /\ ResolveDone /\ opts.ForcePull
    /\ Count("AuthCheck") = 1
    /\ Count("PullImage") = 1
    /\ ret.err = EngineErr(<<"pull", "failed">>)

\* an identity (email or username) and a password were given
CredentialsPresent ==
    (opts.Auth.Email # "" \/ opts.Auth.Username # "") /\ opts.Auth.Password # ""

\* C8: in FnImageBuild with credentials the auth check is the first engine
\* call, before any build or pull; if it fails, its error is returned and
\* nothing is built or pulled; if it succeeds, every later build and pull
\* carries the identity token it answered.  Without credentials no auth check
\* is issued.
C8_AuthBeforeBuildAndPull ==
    op = "Resolve" =>
        IF CredentialsPresent
        THEN /\ pc \notin {"Resolve_defaults", "Resolve_auth"} =>
                    /\ Count("AuthCheck") = 1
                    /\ calls[1].call = "AuthCheck"
             /\ \A i \in 1..Len(calls) :
                    calls[i].call \in {"BuildImage", "PullImage"} =>
                        /\ i > 1
                        /\ calls[1].call = "AuthCheck"
                        /\ ResErr(calls[1]) = Nil
                        /\ calls[i].arg.Auth.IdentityToken = calls[1].res.token
             /\ AuthFailed =>
                    /\ pc = "done"
                    /\ Len(calls) = 1
                    /\ ret.err = ResErr(calls[1])
        ELSE Count("AuthCheck") = 0

C8_Witness ==
    /\ ResolveDone /\ CredentialsPresent
    /\ Len(calls) = 3
    /\ calls[1].res.token = "tok"
    /\ calls[2].call = "BuildImage" /\ calls[2].arg.Auth.IdentityToken = "tok"
    /\ calls[3].call = "PullImage" /\ calls[3].arg.Auth.IdentityToken = "tok"

\* C9: within one invocation of any operation each kind of engine call is
\* issued at most once, whatever the engine answers; in FnImageBuild the only
\* call issued after a failed one is the pull that directly follows a
\* Dockerfile-not-found build error.
C9_NoRetry ==
    /\ \A k \in CallKinds : Count(k) <= 1
    /\ \A i \in 1..Len(calls) : calls[i].call \in CallKinds
    /\ op = "Resolve" =>
          \A i, j \in 1..Len(calls) :
              (i < j /\ ResErr(calls[i]) # Nil) =>
                  /\ calls[i].call = "BuildImage"
                  /\ IsDockerfileNotFound(ResErr(calls[i]))
                  /\ calls[j].call = "PullImage"
                  /\ j = i + 1

C9_Witness ==
    /\ ResolveDone
    /\ Len(calls) = 2
    /\ calls[1].call = "BuildImage" /\ ResErr(calls[1]) # Nil
    /\ calls[2].call = "PullImage" /\ ResErr(calls[2]) # Nil

\* the name carries a digest marker
HasDigest(n) == \E i \in 1..Len(n) : n[i] = "@"

\* the name without the ':' it ends in, if it ends in one
WithoutTagSeparator(n) ==
    IF n # <<>> /\ n[Len(n)] = ":" THEN SubSeq(n, 1, Len(n) - 1) ELSE n

\* C10, as stated: every pull sends the explicit tag when the resolved name
\* carries one, the full name with an empty tag when it carries a digest and
\* no tag, and the name with the tag "latest" when it carries neither.
C10_PullRepositoryAndTag ==
    \A i \in 1..Len(calls) :
        calls[i].call = "PullImage" =>
            LET n == GetImageName(opts)
                tag == ParseRepositoryTag(n)[2]
                sent == calls[i].arg
            IN  /\ tag # <<>> => sent.Tag = tag
                /\ (tag = <<>> /\ HasDigest(n)) =>
                        sent.Repository = n /\ sent.Tag = <<>>
                /\ (tag = <<>> /\ ~HasDigest(n)) =>
                        sent.Repository = n /\ sent.Tag = Latest

\* C10, amended: as stated, except that with neither a (non-empty) tag nor a
\* digest the repository sent is the name without the ':' it may end in.
C10_PullRepositoryAndTagAmended ==
    \A i \in 1..Len(calls) :
        calls[i].call = "PullImage" =>
            LET n == GetImageName(opts)
                tag == ParseRepositoryTag(n)[2]
                sent == calls[i].arg
            IN  /\ tag # <<>> => sent.Tag = tag
                /\ (tag = <<>> /\ HasDigest(n)) =>
                        sent.Repository = n /\ sent.Tag = <<>>
                /\ (tag = <<>> /\ ~HasDigest(n)) =>
                        sent.Repository = WithoutTagSeparator(n) /\ sent.Tag = Latest

C10_Witness ==
    /\ op = "Pull" /\ pc = "done"
    /\ opts.ImageName = <<"a", "@", "a">>
    /\ ~opts.DoNotUsePrefixImageName
    /\ calls[1].arg.Repository = Gofn \o <<"/", "a", "@", "a">>
    /\ calls[1].arg.Tag = <<>>

\* the prefix, a '/' and the name exactly as given, or the name alone when
\* the caller opts out
NameAsGiven(o) ==
    IF o.DoNotUsePrefixImageName THEN o.ImageName
    ELSE Gofn \o <<"/">> \o o.ImageName

\* the name is a non-empty relative path none of whose elements is empty,
\* "." or ".."
IsCleanRelative(n) ==
    /\ n # <<>>
    /\ \A k \in 1..Len(SplitSlash(n)) :
          SplitSlash(n)[k] \notin {<<>>, <<".">>, <<".", ".">>}

\* FnImageBuild has assigned Name
NameResolved ==
    /\ op = "Resolve"
    /\ pc \in {"Resolve_forcepull", "Resolve_build", "Resolve_fallback", "done"}
    /\ ~AuthFailed

\* C11, as stated: for every image name the resolved name (the Name
\* FnImageBuild returns, and the name FnPull pulls) is "gofn/" followed by the
\* name exactly as given, or the name unchanged when the caller opts out.
C11_ResolvedNameAsGiven ==
    /\ NameResolved => ret.Name = NameAsGiven(opts)
    /\ \A i \in 1..Len(calls) :
          calls[i].call = "PullImage" =>
              /\ calls[i].arg.Repository = parseDockerImage(NameAsGiven(opts))[1]
              /\ calls[i].arg.Tag = parseDockerImage(NameAsGiven(opts))[2]

\* C11, amended: the same for every name that is a non-empty relative path
\* without empty, "." or ".." elements, and for every name when the caller
\* opts out.
C11_ResolvedNameOfCleanName ==
    (opts.DoNotUsePrefixImageName \/ IsCleanRelative(opts.ImageName)) =>
        /\ NameResolved => ret.Name = NameAsGiven(opts)
        /\ \A i \in 1..Len(calls) :
              calls[i].call = "PullImage" =>
                  /\ calls[i].arg.Repository = parseDockerImage(NameAsGiven(opts))[1]
                  /\ calls[i].arg.Tag = parseDockerImage(NameAsGiven(opts))[2]

C11_Witness ==
    /\ op = "Pull" /\ pc = "done"
    /\ opts.ImageName = <<"a", "/", "a">>
    /\ ~opts.DoNotUsePrefixImageName
    /\ calls[1].arg.Repository = Gofn \o <<"/", "a", "/", "a">>

\* C12: in FnImageBuild, before the first engine call, a spec with neither a
\* context path nor a remote URI has the context "./", a spec with either
\* keeps both as given, and an empty Dockerfile name has become "Dockerfile";
\* the build is issued with these values.
C12_DefaultsBeforeEngineCalls ==
    (op = "Resolve" /\ (calls # <<>> \/ pc # "Resolve_defaults")) =>
        /\ opts.ContextDir =
              (IF given.ContextDir = "" /\ given.RemoteURI = "" THEN "./"
               ELSE given.ContextDir)
        /\ opts.RemoteURI = given.RemoteURI
        /\ opts.Dockerfile =
              (IF given.Dockerfile = "" THEN "Dockerfile" ELSE given.Dockerfile)
        /\ \A i \in 1..Len(calls) :
              calls[i].call = "BuildImage" =>
                  /\ calls[i].arg.ContextDir = opts.ContextDir
                  /\ calls[i].arg.Remote = opts.RemoteURI
                  /\ calls[i].arg.Dockerfile = opts.Dockerfile

C12_Witness ==
    /\ op = "Resolve"
    /\ given.ContextDir = "" /\ given.RemoteURI = "" /\ given.Dockerfile = ""
    /\ Len(calls) = 1
    /\ calls[1].call = "BuildImage"
    /\ calls[1].arg.ContextDir = "./"
    /\ calls[1].arg.Dockerfile = "Dockerfile"

\* the image name carries the fixed prefix, as FnListContainers recognises it
CarriesPrefix(n) == Len(n) >= 5 /\ SubSeq(n, 1, 5) = <<"g", "o", "f", "n", "/">>

\* the name with the prefix added unless it carries it
PrefixedName(n) == IF CarriesPrefix(n) THEN n ELSE <<"g", "o", "f", "n", "/">> \o n

\* the least position of a non-empty set of positions
FirstOf(m) == CHOOSE i \in m : \A j \in m : i <= j

\* the listing the single ListContainers / ListImages call answered
Listing == calls[1].res.list
ListingFailed == ResErr(calls[1]) # Nil

\* C13: FnFindContainer compares the containers' images with the name to which
\* the prefix has been added unless the name carries it, a name carrying the
\* prefix being exactly one FnListContainers recognises ("gofn/...").
C13_NormalizesLikeListContainers ==
    (op = "FindContainer" /\ pc = "done" /\ ~ListingFailed) =>
        LET m == {i \in 1..Len(Listing) : Listing[i].Image = PrefixedName(arg.name)}
        IN  IF m = {} THEN ret.err = ErrContainerNotFound
            ELSE ret.err = Nil /\ ret.value = Listing[FirstOf(m)]

\* C14: FnListContainers returns exactly the listed containers whose image
\* carries the prefix, in the engine's order; when the listing fails it
\* returns the error and no containers.
C14_ListOnlyPrefixed ==
    (op = "ListContainers" /\ pc = "done") =>
        IF ListingFailed THEN ret.err = ResErr(calls[1]) /\ ret.containers = <<>>
        ELSE LET m == {i \in 1..Len(Listing) : CarriesPrefix(Listing[i].Image)}
             IN  /\ ret.err = Nil
                 /\ Len(ret.containers) = Cardinality(m)
                 /\ \A k \in 1..Len(ret.containers) :
                       \E i \in m : /\ Cardinality({j \in m : j <= i}) = k
                                    /\ ret.containers[k] = Listing[i]

C14_Witness ==
    /\ op = "ListContainers" /\ pc = "done"
    /\ Len(Listing) = 2
    /\ Listing[1].Image = Gofn \o <<"a">>
    /\ Listing[2].Image = Gofn \o <<"/", "a">>
    /\ ret.containers = <<Listing[2]>>

\* the outcome of a lookup over the listing: the sentinel when no position
\* matches, else the element at the first matching position
LookupOutcome(m, notFound) ==
    IF ListingFailed THEN ret.err = ResErr(calls[1]) /\ ret.err # notFound
    ELSE /\ ret.err = notFound <=> m = {}
         /\ m # {} => ret.err = Nil /\ ret.value = Listing[FirstOf(m)]

\* C15: FnFindImage returns ErrImageNotFound iff the listing is empty, else
\* its first image; FnFindContainerByID and FnFindContainer return
\* ErrContainerNotFound iff no listed container has the ID / the normalized
\* image name, else the first that has; a listing error is returned as it is.
C15_NotFoundIffNoMatch ==
    /\ (op = "FindImage" /\ pc = "done") =>
          LookupOutcome(1..Len(Listing), ErrImageNotFound)
    /\ (op = "FindContainerByID" /\ pc = "done") =>
          LookupOutcome({i \in 1..Len(Listing) : Listing[i].ID = arg.id},
                        ErrContainerNotFound)
    /\ (op = "FindContainer" /\ pc = "done") =>
          LookupOutcome({i \in 1..Len(Listing) :
                            Listing[i].Image = NormalizeImageName(arg.name)},
                        ErrContainerNotFound)

C15_Witness ==
    /\ op = "FindContainer" /\ pc = "done"
    /\ arg.name = <<"a">>
    /\ Len(Listing) = 2
    /\ Listing[1] = [ID |-> "c2", Image |-> Gofn \o <<"/", "a">>]
    /\ Listing[2] = [ID |-> "c1", Image |-> Gofn \o <<"/", "a">>]
    /\ ret.err = Nil /\ ret.value = Listing[1]

\* C16: when Start fails FnRun returns its error and issues no Attach, Wait
\* or Logs; when Attach fails FnRun returns its error, issues no Wait or Logs
\* and starts no goroutine; in both cases the returned buffers are nil.
C16_RunStopsAtFirstFailure ==
    (op = "Run" /\ calls # <<>>) =>
        /\ ResErr(calls[1]) # Nil =>
              /\ pc = "done" /\ Len(calls) = 1 /\ gpc = "none"
              /\ ret.err = ResErr(calls[1])
              /\ ret.Stdout = NilBuf /\ ret.Stderr = NilBuf
        /\ (Len(calls) >= 2 /\ ResErr(calls[2]) # Nil) =>
              /\ pc = "done" /\ Len(calls) = 2 /\ gpc = "none"
              /\ ret.err = ResErr(calls[2])
              /\ ret.Stdout = NilBuf /\ ret.Stderr = NilBuf

C16_Witness ==
    /\ RunDone
    /\ Len(calls) = 2
    /\ calls[2].call = "AttachToContainerNonBlocking"
    /\ ret.err = EngineErr(<<"attach", "failed">>)
    /\ ret.Stdout.isNil

\* C17: once the wait call has returned and the caller has received a value
\* and gone on, the goroutine of FnWaitContainer has terminated: it is not
\* left at a further send that nobody will receive.
C17_GoroutineTerminates ==
    (pc = "done" /\ delivered # <<>>) => gpc = "exit"

\* C18: FnRun returns if and only if the wait completes: past a successful
\* Attach it has not returned before the wait call returned and its outcome
\* was received, while the wait call is pending it stands at the channel read
\* and cannot proceed, and once it stands there it eventually returns.
C18_RunReturnsIffWaitCompletes ==
    /\ [](op = "Run" =>
            /\ (pc = "done" /\ RunAttached) =>
                    Count("WaitContainer") = 1 /\ Len(delivered) = 1
            /\ gpc = "wait" =>
                    pc = "Run_recv" /\ ~ENABLED RunRecv /\ ~ENABLED RunLogs)
    /\ (op = "Run" /\ pc = "Run_recv") ~> (pc = "done")

C18_Witness ==
    /\ RunDone /\ RunAttached
    /\ Count("WaitContainer") = 1
    /\ Len(delivered) = 1
    /\ Count("Logs") = 1

\* C19: within FnRun the attach flow and the wait flow run side by side:
\* whatever the state of the attach stream, each step of FnRun other than the
\* channel read can be taken at once, the read waits for the goroutine's send
\* and for nothing else, the stream goes on by itself wherever FnRun stands,
\* and in every interleaving the error FnRun returns is the wait outcome.
C19_OnlyTheReceiveBlocks ==
    op = "Run" =>
        /\ pc = "Run_start" => ENABLED RunStart
        /\ pc = "Run_attach" => ENABLED RunAttach
        /\ pc = "Run_wait" => ENABLED RunWait
        /\ pc = "Run_logs" => ENABLED RunLogs
        /\ (pc = "Run_recv" /\ gpc \in SendPcs) => ENABLED RunRecv
        /\ stream = "streaming" => ENABLED AttachStream
        /\ (pc = "done" /\ RunAttached) => ret.err = WaitOutcome(gres)

\* FnRun has returned the wait outcome while the attach stream is still open
C19_Witness ==
    /\ RunDone /\ RunAttached
    /\ stream = "streaming"
    /\ Len(delivered) = 1
    /\ ret.err = WaitOutcome(gres)

\* the argument FnRun gives the engine call of the kind: its own arguments
RunCallArg(kind) ==
    IF kind = "AttachToContainerNonBlocking"
    THEN [Container |-> arg.id, InputStream |-> arg.input,
          OutputStream |-> "nil", ErrorStream |-> "nil"]
    ELSE arg.id

====
